---- MODULE Spec2Model ----
(***************************************************************************)
(* Retraining / deployment control layer of RadiKal.                        *)
(*                                                                         *)
(*   backend/core/training/retraining_pipeline.py  RetrainingPipeline      *)
(*   backend/api/custom_defects_routes.py          REST handlers           *)
(*   backend/api/review_routes.py                  add_review_to_training  *)
(*   backend/db/models.py                          persisted rows          *)
(*                                                                         *)
(* The persisted rows are the state.  SpecDeploy and SpecLabel run the     *)
(* handlers one at a time (each handler is one action, ending with its     *)
(* db.commit()).  SpecConc and SpecTrain run deploy / rollback and         *)
(* train_model in their own SQLAlchemy sessions, one query or commit per   *)
(* step, so that requests interleave.                                      *)
(***************************************************************************)
EXTENDS Integers, FiniteSets, Sequences, TLC

\* ------------------------------------------------------------------ bounds
MaxCats     == 1      \* CustomDefectType rows ever created
MaxSamples  == 2      \* TrainingSample rows ever created
MaxVersions == 2      \* ModelVersion rows ever created
MaxDatasets == 2      \* TrainingDataset rows ever created
MaxJobs     == 2      \* TrainingJob rows ever created
MaxAnalyses == 1      \* Analysis rows (created by inference, outside this model)
MaxQueue    == 1      \* ActiveLearningQueue rows ever created
MaxScopedDatasets == 1  \* TrainingDataset rows in SpecLabel and SpecConc
MaxClasses  == 2      \* length of a probability vector (SpecScore)
MaxEnsemble == 2      \* ensemble members of one scoring call (SpecScore)
MaxPool     == 1      \* embeddings in the labeled pool (SpecScore)
MaxListed   == 3      \* ActiveLearningQueue rows of the listed table (SpecList)
MaxIngested == 3      \* TrainingSample rows ever created in SpecIngest
MaxCounted  == 2      \* CustomDefectType rows ever created in SpecCount

CatIds      == 1..MaxCats
SampleIds   == 1..MaxSamples
VersionIds  == 1..MaxVersions
DatasetIds  == 1..MaxDatasets
JobIds      == 1..MaxJobs
AnalysisIds == 1..MaxAnalyses
QueueIds    == 1..MaxQueue

\* an id that names no row: the 404 paths
Missing == 0

\* schemas.py: min_samples_required is an integer >= 1
MinSamplesChoices == {2}
\* add_review_to_training(confidence): tenths; the handler compares with 0.7
ConfidenceChoices == {5, 9}

VARIABLES
    defect_types,       \* CustomDefectType rows
    training_samples,   \* TrainingSample rows
    al_queue,           \* ActiveLearningQueue rows
    datasets,           \* TrainingDataset rows
    model_versions,     \* ModelVersion rows
    training_jobs,      \* TrainingJob rows
    sess,               \* SQLAlchemy sessions of the requests in flight (SpecConc)
    learner,            \* the ActiveLearner object (its labeled pool)
    scoring,            \* the arguments of the scoring call at hand (SpecScore)
    last                \* the call that returned last, and how

vars == <<defect_types, training_samples, al_queue, datasets,
          model_versions, training_jobs, sess, learner, scoring, last>>

\* ------------------------------------------------------------ row shapes
\* A row is "free" (id never used), "live", or "gone" (deleted).
NoCat     == [st |-> "free", is_active |-> FALSE, requires_retraining |-> FALSE,
              current_sample_count |-> 0, min_samples_required |-> 0]
NoSample  == [st |-> "free", defect_type_id |-> 0, image_id |-> 0]
NoQueue   == [st |-> "free", analysis_id |-> 0, uncertainty_score |-> 0,
              priority_score |-> 0, status |-> "none", added_at |-> 0]
NoDataset == [st |-> "free", custom_types_included |-> {}, images |-> {}]
NoVersion == [st |-> "free", is_active |-> FALSE, deployment_status |-> "none",
              training_dataset_id |-> 0]
NoJob     == [st |-> "free", status |-> "none", model_version_id |-> 0]

Live(rows, id) == id \in DOMAIN rows /\ rows[id].st = "live"
LiveIds(rows)  == {id \in DOMAIN rows : rows[id].st = "live"}
FreeIds(rows)  == {id \in DOMAIN rows : rows[id].st = "free"}

\* the id the next INSERT gets (autoincrement primary key)
NextId(rows) == CHOOSE id \in FreeIds(rows) : \A other \in FreeIds(rows) : id <= other

Done(op, res, id, force) == [op |-> op, res |-> res, id |-> id, force |-> force]

\* requests in flight at once (SpecConc)
Requests == {1, 2}

\* A request's SQLAlchemy session: where the handler is, its arguments, and the
\* ModelVersion rows in its identity map with the column values it loaded
\* (NoVersion: not loaded).  A run_full_pipeline call also holds its auto_deploy
\* argument and what validate_model returned; a request that adds a sample
\* holds the suggestion it accepts and the current_sample_count it loaded.
NoSession == [pc |-> "idle", op |-> "none", target |-> 0, force |-> FALSE,
              loaded |-> [v \in VersionIds |-> NoVersion], current_active |-> 0,
              job |-> 0, auto_deploy |-> FALSE, validation |-> "none",
              suggestion |-> 0, sample_count |-> 0]

\* Optional[...] arguments: None, or the value supplied
None    == {}
Some(x) == {x}
Get(o)  == CHOOSE x \in o : TRUE

\* ActiveLearner.__init__: the pool of labeled embeddings starts empty
NoLearner == [labeled_features |-> <<>>]
\* no scoring call at hand
NoScoring == [probabilities |-> <<>>, image_features |-> None,
              ensemble_predictions |-> None, predicted_class |-> None,
              class_counts |-> None]

Init ==
    /\ learner          = NoLearner
    /\ scoring          = NoScoring
    /\ defect_types     = [c \in CatIds |-> NoCat]
    /\ training_samples = [s \in SampleIds |-> NoSample]
    /\ al_queue         = [q \in QueueIds |-> NoQueue]
    /\ datasets         = [d \in DatasetIds |-> NoDataset]
    /\ model_versions   = [v \in VersionIds |-> NoVersion]
    /\ training_jobs    = [j \in JobIds |-> NoJob]
    /\ sess             = [p \in Requests |-> NoSession]
    /\ last             = Done("none", "none", 0, FALSE)

\* ------------------------------------------------- custom defect types
\* POST /types.  The duplicate name/code check (HTTP 400, nothing written) is
\* not modelled: every creation carries a fresh name and code.
create_custom_defect_type(min_required) ==
    /\ FreeIds(defect_types) # {}
    /\ LET c == NextId(defect_types) IN
       /\ defect_types' = [defect_types EXCEPT ![c] =
              [st |-> "live", is_active |-> TRUE, requires_retraining |-> TRUE,
               current_sample_count |-> 0, min_samples_required |-> min_required]]
       /\ last' = Done("create_custom_defect_type", "ok", Missing, FALSE)
    /\ UNCHANGED <<learner, scoring, training_samples, al_queue, datasets, model_versions,
                   training_jobs, sess>>

\* PATCH /types/{id}: CustomDefectTypeUpdate carries is_active and
\* min_samples_required, never requires_retraining or current_sample_count.
update_custom_defect_type(c, active, min_required) ==
    /\ IF ~Live(defect_types, c)
       THEN /\ last' = Done("update_custom_defect_type", "not_found", Missing, FALSE)
            /\ UNCHANGED defect_types
       ELSE /\ defect_types' = [defect_types EXCEPT
                                   ![c].is_active = active,
                                   ![c].min_samples_required = min_required]
            /\ last' = Done("update_custom_defect_type", "ok", Missing, FALSE)
    /\ UNCHANGED <<learner, scoring, training_samples, al_queue, datasets, model_versions,
                   training_jobs, sess>>

SamplesOf(c) == {s \in LiveIds(training_samples) :
                    training_samples[s].defect_type_id = c}

\* DELETE /types/{id}?force=
delete_custom_defect_type(c, force) ==
    /\ IF ~Live(defect_types, c)
       THEN /\ last' = Done("delete_custom_defect_type", "not_found", Missing, FALSE)
            /\ UNCHANGED <<defect_types, training_samples>>
       ELSE IF SamplesOf(c) # {} /\ ~force
       THEN /\ last' = Done("delete_custom_defect_type", "invalid_state", Missing, FALSE)
            /\ UNCHANGED <<defect_types, training_samples>>
       ELSE \* db.delete cascades to the type's samples (cascade="all, delete-orphan")
            /\ defect_types' = [defect_types EXCEPT ![c] = [NoCat EXCEPT !.st = "gone"]]
            /\ training_samples' = [s \in SampleIds |->
                  IF s \in SamplesOf(c) THEN [NoSample EXCEPT !.st = "gone"]
                  ELSE training_samples[s]]
            /\ last' = Done("delete_custom_defect_type", "ok", Missing, FALSE)
    /\ UNCHANGED <<learner, scoring, al_queue, datasets, model_versions, training_jobs, sess>>

\* ---------------------------------------------------- training samples
\* POST /samples
create_training_sample(c, image) ==
    /\ IF ~Live(defect_types, c)
       THEN /\ last' = Done("create_training_sample", "not_found", Missing, FALSE)
            /\ UNCHANGED <<defect_types, training_samples>>
       ELSE /\ FreeIds(training_samples) # {}
            /\ training_samples' = [training_samples EXCEPT
                  ![NextId(training_samples)] =
                     [st |-> "live", defect_type_id |-> c, image_id |-> image]]
            /\ defect_types' = [defect_types EXCEPT
                  ![c].current_sample_count = @ + 1,
                  ![c].requires_retraining = TRUE]
            /\ last' = Done("create_training_sample", "ok", Missing, FALSE)
    /\ UNCHANGED <<learner, scoring, al_queue, datasets, model_versions, training_jobs, sess>>

Max0(n) == IF n < 0 THEN 0 ELSE n

\* DELETE /samples/{id}
delete_training_sample(s) ==
    /\ IF ~Live(training_samples, s)
       THEN /\ last' = Done("delete_training_sample", "not_found", Missing, FALSE)
            /\ UNCHANGED <<defect_types, training_samples>>
       ELSE LET c == training_samples[s].defect_type_id IN
            /\ defect_types' =
                  IF Live(defect_types, c)
                  THEN [defect_types EXCEPT
                           ![c].current_sample_count = Max0(@ - 1)]
                  ELSE defect_types
            /\ training_samples' = [training_samples EXCEPT
                                       ![s] = [NoSample EXCEPT !.st = "gone"]]
            /\ last' = Done("delete_training_sample", "ok", Missing, FALSE)
    /\ UNCHANGED <<learner, scoring, al_queue, datasets, model_versions, training_jobs, sess>>

\* ------------------------------------------------------ active learning
\* POST /active-learning/{id}/accept.  The handler never looks at the
\* suggestion's status and inserts the sample before it looks the defect type
\* up.  When the defect type does not exist the INSERT carries a dangling
\* foreign key: PostgreSQL (DATABASE_TYPE=supabase) rejects the commit, SQLite
\* (foreign keys not enforced) accepts it; fk_enforced chooses the build.
accept_active_learning_suggestion(q, c, fk_enforced) ==
    /\ IF ~Live(al_queue, q)
       THEN /\ last' = Done("accept_active_learning_suggestion", "not_found", q, FALSE)
            /\ UNCHANGED <<defect_types, training_samples, al_queue>>
       ELSE IF ~Live(defect_types, c) /\ fk_enforced
       THEN /\ last' = Done("accept_active_learning_suggestion", "server_error", q, FALSE)
            /\ UNCHANGED <<defect_types, training_samples, al_queue>>
       ELSE /\ FreeIds(training_samples) # {}
            /\ training_samples' = [training_samples EXCEPT
                  ![NextId(training_samples)] =
                     [st |-> "live", defect_type_id |-> c, image_id |-> Missing]]
            /\ al_queue' = [al_queue EXCEPT ![q].status = "labeled"]
            /\ defect_types' =
                  IF Live(defect_types, c)
                  THEN [defect_types EXCEPT
                           ![c].current_sample_count = @ + 1,
                           ![c].requires_retraining = TRUE]
                  ELSE defect_types
            /\ last' = Done("accept_active_learning_suggestion", "ok", q, FALSE)
    /\ UNCHANGED <<learner, scoring, datasets, model_versions, training_jobs, sess>>

\* POST /active-learning/{id}/skip
skip_active_learning_suggestion(q) ==
    /\ IF ~Live(al_queue, q)
       THEN /\ last' = Done("skip_active_learning_suggestion", "not_found", q, FALSE)
            /\ UNCHANGED al_queue
       ELSE /\ al_queue' = [al_queue EXCEPT ![q].status = "skipped"]
            /\ last' = Done("skip_active_learning_suggestion", "ok", q, FALSE)
    /\ UNCHANGED <<learner, scoring, defect_types, training_samples, datasets, model_versions,
                   training_jobs, sess>>

\* review_routes.py POST /add-to-training
add_review_to_training(a, c, confidence) ==
    /\ IF a \notin AnalysisIds \/ ~Live(defect_types, c)
       THEN /\ last' = Done("add_review_to_training", "not_found", Missing, FALSE)
            /\ UNCHANGED <<defect_types, training_samples, al_queue>>
       ELSE IF \E s \in LiveIds(training_samples) : training_samples[s].image_id = a
       THEN /\ last' = Done("add_review_to_training", "exists", Missing, FALSE)
            /\ UNCHANGED <<defect_types, training_samples, al_queue>>
       ELSE /\ FreeIds(training_samples) # {}
            /\ confidence < 7 => (\E q \in LiveIds(al_queue) : al_queue[q].analysis_id = a)
                                 \/ FreeIds(al_queue) # {}
            /\ training_samples' = [training_samples EXCEPT
                  ![NextId(training_samples)] =
                     [st |-> "live", defect_type_id |-> c, image_id |-> a]]
            /\ LET n == defect_types[c].current_sample_count + 1 IN
               defect_types' = [defect_types EXCEPT
                  ![c].current_sample_count = n,
                  ![c].requires_retraining =
                      IF n >= defect_types[c].min_samples_required THEN TRUE ELSE @]
            /\ al_queue' =
                  IF confidence < 7
                     /\ ~\E q \in LiveIds(al_queue) : al_queue[q].analysis_id = a
                  THEN [al_queue EXCEPT ![NextId(al_queue)] =
                           [st |-> "live", analysis_id |-> a,
                            uncertainty_score |-> 10 - confidence,
                            priority_score |-> 9, status |-> "suggested",
                            \* utcnow() at the INSERT: later rows, later times
                            added_at |-> NextId(al_queue)]]
                  ELSE al_queue
            /\ last' = Done("add_review_to_training", "ok", Missing, FALSE)
    /\ UNCHANGED <<learner, scoring, datasets, model_versions, training_jobs, sess>>

\* the handlers that create and delete defect types and samples, one at a
\* time, over MaxCounted defect type ids
InitCount ==
    /\ defect_types     = [c \in 1..MaxCounted |-> NoCat]
    /\ learner          = NoLearner
    /\ scoring          = NoScoring
    /\ training_samples = [s \in SampleIds |-> NoSample]
    /\ al_queue         = [q \in QueueIds |-> NoQueue]
    /\ datasets         = [d \in DatasetIds |-> NoDataset]
    /\ model_versions   = [v \in VersionIds |-> NoVersion]
    /\ training_jobs    = [j \in JobIds |-> NoJob]
    /\ sess             = [p \in Requests |-> NoSession]
    /\ last             = Done("none", "none", 0, FALSE)

NextCount ==
    \/ \E m \in MinSamplesChoices : create_custom_defect_type(m)
    \/ \E c \in 1..MaxCounted, f \in BOOLEAN : delete_custom_defect_type(c, f)
    \/ \E c \in 1..MaxCounted : create_training_sample(c, Missing)
    \/ \E s \in SampleIds : delete_training_sample(s)
    \/ \E q \in QueueIds, c \in 1..MaxCounted, fk \in BOOLEAN :
          accept_active_learning_suggestion(q, c, fk)
    \/ \E a \in AnalysisIds, c \in 1..MaxCounted, k \in ConfidenceChoices :
          add_review_to_training(a, c, k)

SpecCount == InitCount /\ [][NextCount]_vars

\* ------------------------------------------------- retraining pipeline
ActiveCats == {c \in LiveIds(defect_types) : defect_types[c].is_active}

\* the samples prepare_training_dataset hands to transfer_learner.prepare_dataset,
\* which copies their images into the dataset directory: the samples of the
\* active defect types (every image file is taken to be on disk)
SnapshotImages ==
    {s \in LiveIds(training_samples) : training_samples[s].defect_type_id \in ActiveCats}

\* TrainingDataset.total_images: train_count + val_count + test_count
total_images(d) == Cardinality(datasets[d].images)

\* RetrainingPipeline.prepare_training_dataset: the snapshot row records the
\* ids of the active defect types and the images copied
prepare_training_dataset ==
    /\ FreeIds(datasets) # {}
    /\ datasets' = [datasets EXCEPT ![NextId(datasets)] =
          [st |-> "live", custom_types_included |-> ActiveCats,
           images |-> SnapshotImages]]
    /\ last' = Done("prepare_training_dataset", "ok", Missing, FALSE)
    /\ UNCHANGED <<learner, scoring, defect_types, training_samples, al_queue, model_versions,
                   training_jobs, sess>>

\* RetrainingPipeline.create_model_version(dataset_id)
create_model_version(d) ==
    /\ Live(datasets, d)
    /\ FreeIds(model_versions) # {}
    /\ model_versions' = [model_versions EXCEPT ![NextId(model_versions)] =
          [st |-> "live", is_active |-> FALSE, deployment_status |-> "training",
           training_dataset_id |-> d]]
    /\ last' = Done("create_model_version", "ok", Missing, FALSE)
    /\ UNCHANGED <<learner, scoring, defect_types, training_samples, al_queue, datasets,
                   training_jobs, sess>>

TrainOutcomes == {"success", "failure", "raises"}

\* what train_model writes when transfer_learner.train returns
JobStatusAfter(outcome)     == IF outcome = "success" THEN "completed" ELSE "failed"
VersionStatusAfter(outcome) == IF outcome = "success" THEN "trained" ELSE "failed"

\* RetrainingPipeline.train_model on the version create_model_version just
\* made (run_full_pipeline, the only caller), with no other request in between.
train_model(v, outcome) ==
    /\ Live(model_versions, v)
    /\ model_versions[v].deployment_status = "training"
    /\ FreeIds(training_jobs) # {}
    /\ training_jobs' = [training_jobs EXCEPT ![NextId(training_jobs)] =
          [st |-> "live", status |-> JobStatusAfter(outcome), model_version_id |-> v]]
    /\ model_versions' = [model_versions EXCEPT
          ![v].deployment_status = VersionStatusAfter(outcome)]
    /\ last' = Done("train_model", IF outcome = "success" THEN "ok" ELSE "failed",
                    Missing, FALSE)
    /\ UNCHANGED <<learner, scoring, defect_types, training_samples, al_queue, datasets, sess>>

\* RetrainingPipeline.validate_model: writes metrics only (not part of the state)
validate_model(v, passes) ==
    /\ Live(model_versions, v)
    /\ model_versions[v].deployment_status = "trained"
    /\ last' = Done("validate_model", IF passes THEN "passed" ELSE "rejected",
                    Missing, FALSE)
    /\ UNCHANGED <<learner, scoring, defect_types, training_samples, al_queue, datasets,
                   model_versions, training_jobs, sess>>

\* ------------------------------------------------- training job routes
\* POST /train: records a pending job; the background task is commented out
start_training_job(v) ==
    /\ IF ~Live(model_versions, v)
       THEN /\ last' = Done("start_training_job", "not_found", Missing, FALSE)
            /\ UNCHANGED training_jobs
       ELSE /\ FreeIds(training_jobs) # {}
            /\ training_jobs' = [training_jobs EXCEPT ![NextId(training_jobs)] =
                  [st |-> "live", status |-> "pending", model_version_id |-> v]]
            /\ last' = Done("start_training_job", "ok", Missing, FALSE)
    /\ UNCHANGED <<learner, scoring, defect_types, training_samples, al_queue, datasets,
                   model_versions, sess>>

\* POST /training-jobs/{id}/cancel
cancel_training_job(j) ==
    /\ IF ~Live(training_jobs, j)
       THEN /\ last' = Done("cancel_training_job", "not_found", j, FALSE)
            /\ UNCHANGED training_jobs
       ELSE IF training_jobs[j].status \notin {"pending", "running"}
       THEN /\ last' = Done("cancel_training_job", "invalid_state", j, FALSE)
            /\ UNCHANGED training_jobs
       ELSE /\ training_jobs' = [training_jobs EXCEPT ![j].status = "cancelled"]
            /\ last' = Done("cancel_training_job", "ok", j, FALSE)
    /\ UNCHANGED <<learner, scoring, defect_types, training_samples, al_queue, datasets,
                   model_versions, sess>>

\* ---------------------------------------------------------- deployment
\* query(ModelVersion).filter(is_active == True).first(): any active row, or
\* None (Missing) when there is none
FirstActive(rows) ==
    IF \E v \in LiveIds(rows) : rows[v].is_active
    THEN {v \in LiveIds(rows) : rows[v].is_active}
    ELSE {Missing}

\* the swap without its deactivation of the active row
Deactivate_skipped(rows, cur, archive) == rows

\* The assignments of the three swaps on the session's objects, in their order:
\* the active row found is deactivated (and archived, when the handler does
\* that), then the target is activated.
Deactivate(rows, cur, archive) ==
    IF cur = Missing THEN rows
    ELSE [rows EXCEPT ![cur].is_active = FALSE,
                      ![cur].deployment_status = IF archive THEN "archived" ELSE @]

Activate(rows, target) ==
    [rows EXCEPT ![target].is_active = TRUE,
                 ![target].deployment_status = "deployed"]

\* db.commit(): the unit of work writes the columns whose value differs from
\* the value the session loaded, and no others
Flush(db, loaded, mem) ==
    [v \in DOMAIN db |->
        [db[v] EXCEPT
            !.is_active = IF mem[v].is_active # loaded[v].is_active
                          THEN mem[v].is_active ELSE @,
            !.deployment_status =
                          IF mem[v].deployment_status # loaded[v].deployment_status
                          THEN mem[v].deployment_status ELSE @]]

\* deploy_model's loop over dataset.custom_types_included
ClearRetraining(cats, d) ==
    IF ~Live(datasets, d) THEN cats
    ELSE [c \in DOMAIN cats |->
            IF c \in datasets[d].custom_types_included /\ cats[c].st = "live"
            THEN [cats[c] EXCEPT !.requires_retraining = FALSE]
            ELSE cats[c]]

\* which handlers archive the version they deactivate, and which clear
\* requires_retraining
Archives(op) == op \in {"deploy_model", "rollback_model_version"}

\* a rollback that shares deploy_model's loop over the dataset's defect types
Clears_on_rollback(op) == op \in {"deploy_model", "rollback_model_version"}

Clears(op) == op = "deploy_model"

\* the handlers without their status check
StatusAllowed_unchecked(op, status, force) == TRUE

\* a rollback that only refuses versions still in training
StatusAllowed_rollback_lax(op, status, force) ==
    CASE op = "deploy_model"           -> status = "trained" \/ force
      [] op = "deploy_model_version"   -> status = "trained"
      [] op = "rollback_model_version" -> status # "training"

\* the precondition each handler checks on the target's deployment_status
StatusAllowed(op, status, force) ==
    CASE op = "deploy_model"           -> status = "trained" \/ force
      [] op = "deploy_model_version"   -> status = "trained"
      [] op = "rollback_model_version" -> status \in {"deployed", "archived"}

\* One whole swap in one session with nothing in between.
SwapHandler(op, v, force) ==
    /\ IF ~Live(model_versions, v)
       THEN /\ last' = Done(op, "not_found", v, force)
            /\ UNCHANGED <<model_versions, defect_types>>
       ELSE IF ~StatusAllowed(op, model_versions[v].deployment_status, force)
       THEN /\ last' = Done(op, "invalid_state", v, force)
            /\ UNCHANGED <<model_versions, defect_types>>
       ELSE \E cur \in FirstActive(model_versions) :
            /\ model_versions' = Flush(model_versions, model_versions,
                   Activate(Deactivate(model_versions, cur, Archives(op)), v))
            /\ defect_types' = IF Clears(op)
                               THEN ClearRetraining(defect_types,
                                        model_versions[v].training_dataset_id)
                               ELSE defect_types
            /\ last' = Done(op, "ok", v, force)
    /\ UNCHANGED <<learner, scoring, training_samples, al_queue, datasets, training_jobs, sess>>

\* RetrainingPipeline.deploy_model(model_version, force): the caller holds the row
deploy_model(v, force) ==
    /\ Live(model_versions, v)
    /\ SwapHandler("deploy_model", v, force)

\* POST /models/deploy
deploy_model_version(v) == SwapHandler("deploy_model_version", v, FALSE)

\* POST /models/rollback
rollback_model_version(v) == SwapHandler("rollback_model_version", v, FALSE)

\* The handlers that read or write model versions, with the defect types and
\* datasets deploy_model reads.
NextDeploy ==
    \/ \E m \in MinSamplesChoices : create_custom_defect_type(m)
    \/ prepare_training_dataset
    \/ \E d \in DatasetIds : create_model_version(d)
    \/ \E v \in VersionIds, o \in TrainOutcomes : train_model(v, o)
    \/ \E v \in VersionIds, f \in BOOLEAN : deploy_model(v, f)
    \/ \E v \in VersionIds \cup {Missing} : deploy_model_version(v)
    \/ \E v \in VersionIds \cup {Missing} : rollback_model_version(v)

SpecDeploy == Init /\ [][NextDeploy]_vars

\* The handlers that read or write defect types and their samples, with the
\* pipeline stages that lead to a deployment (of one dataset snapshot).
NextLabel ==
    \/ \E m \in MinSamplesChoices : create_custom_defect_type(m)
    \/ \E c \in CatIds \cup {Missing}, a \in BOOLEAN, m \in MinSamplesChoices :
          update_custom_defect_type(c, a, m)
    \/ \E c \in CatIds \cup {Missing}, f \in BOOLEAN : delete_custom_defect_type(c, f)
    \/ \E c \in CatIds \cup {Missing} : create_training_sample(c, Missing)
    \/ \E s \in SampleIds \cup {Missing} : delete_training_sample(s)
    \/ \E q \in QueueIds \cup {Missing}, c \in CatIds \cup {Missing}, fk \in BOOLEAN :
          accept_active_learning_suggestion(q, c, fk)
    \/ \E q \in QueueIds \cup {Missing} : skip_active_learning_suggestion(q)
    \/ \E a \in AnalysisIds \cup {Missing}, c \in CatIds \cup {Missing},
          k \in ConfidenceChoices : add_review_to_training(a, c, k)
    \/ Cardinality(LiveIds(datasets)) < MaxScopedDatasets /\ prepare_training_dataset
    \/ \E d \in DatasetIds : create_model_version(d)
    \/ \E v \in VersionIds, o \in TrainOutcomes : train_model(v, o)
    \/ \E v \in VersionIds, b \in BOOLEAN : validate_model(v, b)
    \/ \E v \in VersionIds, f \in BOOLEAN : deploy_model(v, f)
    \/ \E v \in VersionIds \cup {Missing} : rollback_model_version(v)

SpecLabel == Init /\ [][NextLabel]_vars

\* ------------------------------------------- requests that interleave
\* The same handlers, one query or commit per step.  Each request has its own
\* session (get_db / the pipeline's db_session); a query sees what is committed,
\* a row already in the identity map keeps the values it was loaded with, and
\* commit writes the changed columns (Flush).

\* the lookup of the target and the status check
BeginSwap(p, op, v, force) ==
    /\ sess[p].pc = "idle"
    /\ op = "deploy_model" => Live(model_versions, v)
    /\ IF ~Live(model_versions, v)
       THEN /\ last' = Done(op, "not_found", v, force)
            /\ UNCHANGED sess
       ELSE IF ~StatusAllowed(op, model_versions[v].deployment_status, force)
       THEN /\ last' = Done(op, "invalid_state", v, force)
            /\ UNCHANGED sess
       ELSE /\ sess' = [sess EXCEPT ![p] =
                 [NoSession EXCEPT !.pc = "query_active", !.op = op, !.target = v,
                                   !.force = force,
                                   !.loaded = [@ EXCEPT ![v] = model_versions[v]]]]
            /\ UNCHANGED last
    /\ UNCHANGED <<learner, scoring, defect_types, training_samples, al_queue, datasets,
                   model_versions, training_jobs>>

\* current_active = query(ModelVersion).filter(is_active == True).first()
QueryActive(p) ==
    /\ sess[p].pc = "query_active"
    /\ \E cur \in FirstActive(model_versions) :
          sess' = [sess EXCEPT
             ![p].pc = "commit",
             ![p].current_active = cur,
             ![p].loaded = IF cur # Missing /\ @[cur].st = "free"
                           THEN [@ EXCEPT ![cur] = model_versions[cur]]
                           ELSE @]
    /\ UNCHANGED <<learner, scoring, defect_types, training_samples, al_queue, datasets,
                   model_versions, training_jobs, last>>

\* the assignments and db.commit()
CommitSwap(p) ==
    /\ sess[p].pc = "commit"
    /\ LET me  == sess[p]
           mem == Activate(Deactivate(me.loaded, me.current_active, Archives(me.op)),
                           me.target)
       IN /\ model_versions' = Flush(model_versions, me.loaded, mem)
          /\ defect_types' = IF Clears(me.op)
                             THEN ClearRetraining(defect_types,
                                      me.loaded[me.target].training_dataset_id)
                             ELSE defect_types
          /\ last' = Done(me.op, "ok", me.target, me.force)
    /\ sess' = [sess EXCEPT ![p] = NoSession]
    /\ UNCHANGED <<learner, scoring, training_samples, al_queue, datasets, training_jobs>>

\* train_model up to the call of transfer_learner.train: the job row is
\* committed with status "running"
TrainBegin(p, v) ==
    /\ sess[p].pc = "idle"
    /\ Live(model_versions, v)
    /\ model_versions[v].deployment_status = "training"
    /\ \A r \in Requests : ~(sess[r].pc = "training" /\ sess[r].target = v)
    /\ FreeIds(training_jobs) # {}
    /\ training_jobs' = [training_jobs EXCEPT ![NextId(training_jobs)] =
          [st |-> "live", status |-> "running", model_version_id |-> v]]
    /\ sess' = [sess EXCEPT ![p] =
          [NoSession EXCEPT !.pc = "training", !.op = "train_model", !.target = v,
                            !.job = NextId(training_jobs)]]
    /\ UNCHANGED <<learner, scoring, defect_types, training_samples, al_queue, datasets,
                   model_versions, last>>

\* transfer_learner.train has returned (or raised): both objects were expired
\* by the commits before the call, so the two statuses assigned here are
\* written whatever the rows hold by now
TrainFinish(p, outcome) ==
    /\ sess[p].pc = "training"
    /\ training_jobs' = [training_jobs EXCEPT
          ![sess[p].job].status = JobStatusAfter(outcome)]
    /\ model_versions' = [model_versions EXCEPT
          ![sess[p].target].deployment_status = VersionStatusAfter(outcome)]
    /\ last' = Done("train_model", IF outcome = "success" THEN "ok" ELSE "failed",
                    Missing, FALSE)
    /\ sess' = [sess EXCEPT ![p] = NoSession]
    /\ UNCHANGED <<learner, scoring, defect_types, training_samples, al_queue, datasets>>

SwapOps == {"deploy_model", "deploy_model_version", "rollback_model_version"}

\* two swap requests at a time: deploys and rollbacks from different workers
NextConc ==
    \/ Cardinality(LiveIds(datasets)) < MaxScopedDatasets /\ prepare_training_dataset
    \/ \E d \in DatasetIds : create_model_version(d)
    \/ \E v \in VersionIds, o \in TrainOutcomes : train_model(v, o)
    \/ \E p \in Requests, op \in SwapOps, v \in VersionIds, f \in BOOLEAN :
          /\ op # "deploy_model" => ~f
          /\ BeginSwap(p, op, v, f)
    \/ \E p \in Requests : QueryActive(p)
    \/ \E p \in Requests : CommitSwap(p)

SpecConc == Init /\ [][NextConc]_vars

\* training runs in the pipeline's worker while the job routes and deploys are
\* served
NextTrain ==
    \/ Cardinality(LiveIds(datasets)) < MaxScopedDatasets /\ prepare_training_dataset
    \/ \E d \in DatasetIds : create_model_version(d)
    \/ \E p \in Requests, v \in VersionIds : TrainBegin(p, v)
    \/ \E p \in Requests, o \in TrainOutcomes : TrainFinish(p, o)
    \/ \E v \in VersionIds \cup {Missing} : start_training_job(v)
    \/ \E j \in JobIds \cup {Missing} : cancel_training_job(j)
    \/ \E v \in VersionIds, f \in BOOLEAN : deploy_model(v, f)

SpecTrain == Init /\ [][NextTrain]_vars

\* ------------------------------------------ sample requests that interleave
\* POST /samples and POST /active-learning/{id}/accept served by different
\* workers on one database.  Each request loads the CustomDefectType row into
\* its own session, computes current_sample_count + 1 from the loaded value
\* (defect_type.current_sample_count += 1) and writes the result at commit;
\* nothing locks the row between the SELECT and the UPDATE.
IngestOps == {"create_training_sample", "accept_active_learning_suggestion"}

\* up to the query of the defect type
BeginIngest(p, op, c, q) ==
    /\ sess[p].pc = "idle"
    /\ op = "create_training_sample" => q = Missing
    /\ op = "accept_active_learning_suggestion" => Live(defect_types, c)
    /\ IF op = "accept_active_learning_suggestion" /\ ~Live(al_queue, q)
       THEN /\ last' = Done(op, "not_found", q, FALSE)
            /\ UNCHANGED sess
       ELSE IF ~Live(defect_types, c)
       THEN /\ last' = Done(op, "not_found", q, FALSE)
            /\ UNCHANGED sess
       ELSE /\ sess' = [sess EXCEPT ![p] =
                 [NoSession EXCEPT !.pc = "ingest", !.op = op, !.target = c,
                     !.suggestion = q,
                     !.sample_count = defect_types[c].current_sample_count]]
            /\ UNCHANGED last
    /\ UNCHANGED <<learner, scoring, defect_types, training_samples, al_queue,
                   datasets, model_versions, training_jobs>>

\* the increment and db.commit(): the INSERT of the sample, the UPDATE of the
\* count to the value computed in the session, the suggestion's status
CommitIngest(p) ==
    /\ sess[p].pc = "ingest"
    /\ FreeIds(training_samples) # {}
    /\ LET me == sess[p] IN
       /\ training_samples' = [training_samples EXCEPT
             ![NextId(training_samples)] =
                [st |-> "live", defect_type_id |-> me.target, image_id |-> Missing]]
       /\ defect_types' = [defect_types EXCEPT
             ![me.target].current_sample_count = me.sample_count + 1,
             ![me.target].requires_retraining = TRUE]
       /\ al_queue' = IF me.op = "accept_active_learning_suggestion"
                      THEN [al_queue EXCEPT ![me.suggestion].status = "labeled"]
                      ELSE al_queue
       /\ last' = Done(me.op, "ok", me.suggestion, FALSE)
    /\ sess' = [sess EXCEPT ![p] = NoSession]
    /\ UNCHANGED <<learner, scoring, datasets, model_versions, training_jobs>>

InitIngest ==
    /\ training_samples = [s \in 1..MaxIngested |-> NoSample]
    /\ learner          = NoLearner
    /\ scoring          = NoScoring
    /\ defect_types     = [c \in CatIds |-> NoCat]
    /\ al_queue         = [q \in QueueIds |-> NoQueue]
    /\ datasets         = [d \in DatasetIds |-> NoDataset]
    /\ model_versions   = [v \in VersionIds |-> NoVersion]
    /\ training_jobs    = [j \in JobIds |-> NoJob]
    /\ sess             = [p \in Requests |-> NoSession]
    /\ last             = Done("none", "none", 0, FALSE)

NextIngest ==
    \/ \E m \in MinSamplesChoices : create_custom_defect_type(m)
    \/ \E a \in AnalysisIds, c \in CatIds, k \in ConfidenceChoices :
          add_review_to_training(a, c, k)
    \/ \E p \in Requests, op \in IngestOps, c \in CatIds \cup {Missing},
          q \in QueueIds \cup {Missing} : BeginIngest(p, op, c, q)
    \/ \E p \in Requests : CommitIngest(p)

SpecIngest == InitIngest /\ [][NextIngest]_vars

\* ------------------------------------------------- run_full_pipeline
\* (datetime.utcnow() - active_model.created_at).days: what the clock makes
\* of the active model's age when the check runs
DaysChoices == {0, 29, 30}

\* a check that looks at the requires_retraining flags only
RetrainingCheck_flags_only(days_since_training, active_model) ==
    IF \E c \in LiveIds(defect_types) :
          defect_types[c].requires_retraining /\ defect_types[c].is_active
    THEN [should_retrain |-> TRUE, reasons |-> <<"need_retraining">>]
    ELSE [should_retrain |-> FALSE, reasons |-> <<>>]

\* check_retraining_needed, with the active model the query's first() returns:
\* the four checks in their order, each setting should_retrain and appending
\* its reason
RetrainingCheck(days_since_training, active_model) ==
    LET defects_needing_retraining ==
            {c \in LiveIds(defect_types) :
                defect_types[c].requires_retraining /\ defect_types[c].is_active}
        defects_ready ==
            {c \in LiveIds(defect_types) :
                /\ defect_types[c].is_active
                /\ defect_types[c].current_sample_count
                      >= defect_types[c].min_samples_required
                /\ defect_types[c].requires_retraining}
        old_dataset ==
            IF active_model = Missing THEN Missing
            ELSE model_versions[active_model].training_dataset_id
        current_sample_count == Cardinality(LiveIds(training_samples))
        check1 == defects_needing_retraining # {}
        check2 == defects_ready # {}
        check3 == active_model # Missing /\ days_since_training >= 30
        \* current_sample_count > old_dataset.total_images * 1.1
        check4 == /\ old_dataset # Missing
                  /\ Live(datasets, old_dataset)
                  /\ 10 * current_sample_count > 11 * total_images(old_dataset)
        after1 == IF check1 THEN [should_retrain |-> TRUE, reasons |-> <<"need_retraining">>]
                  ELSE [should_retrain |-> FALSE, reasons |-> <<>>]
        after2 == IF check2 THEN [should_retrain |-> TRUE,
                                  reasons |-> Append(after1.reasons, "sufficient_samples")]
                  ELSE after1
        after3 == IF check3 THEN [should_retrain |-> TRUE,
                                  reasons |-> Append(after2.reasons, "model_age")]
                  ELSE after2
    IN IF check4 THEN [should_retrain |-> TRUE,
                       reasons |-> Append(after3.reasons, "more_samples")]
       ELSE after3

\* what check_retraining_needed can return in this state
check_retraining_needed(days_since_training) ==
    {RetrainingCheck(days_since_training, active_model) :
        active_model \in FirstActive(model_versions)}

\* GET of the check on its own
CheckRetraining(days_since_training) ==
    /\ \E result \in check_retraining_needed(days_since_training) :
          last' = Done("check_retraining_needed", result, Missing, FALSE)
                  @@ [days_since_training |-> days_since_training]
    /\ UNCHANGED <<defect_types, training_samples, al_queue, datasets,
                   model_versions, training_jobs, sess, learner, scoring>>

\* what the collaborators of validate_model can do: accuracy at or above
\* validation_threshold, accuracy below it, or evaluate raising
ValidationOutcomes == {"passes", "below", "raises"}

\* the pipeline without its check of training_results
training_success_skipped(outcome) == TRUE

\* training_results.get('success'): train_model's except branch and its
\* failure branch both return success = False
training_success(outcome) == outcome = "success"

\* validate_model's return value: its except branch returns
\* passes_validation = False
passes_validation(validation) == validation = "passes"

\* a stage 6 that looks at auto_deploy only
DeploymentStage_unvalidated(auto_deploy, validation) ==
    IF auto_deploy THEN "deploy" ELSE "skipped_auto_deploy_disabled"

\* stage 6 of run_full_pipeline: the if / elif / else on auto_deploy and
\* passes_validation
DeploymentStage(auto_deploy, validation) ==
    IF auto_deploy /\ passes_validation(validation) THEN "deploy"
    ELSE IF ~passes_validation(validation) THEN "skipped_failed_validation"
    ELSE "skipped_auto_deploy_disabled"

\* Stages 1 to 4 up to the call of transfer_learner.train: the check, the
\* dataset snapshot, the model version and the running job.  create_raises: the
\* commit of create_model_version raises; the except clause of
\* run_full_pipeline returns {'success': False, 'error': ...}, which has no
\* stage_failed key, and the dataset row stays.  What the run returns is
\* recorded in last, with auto_deploy as its flag.
PipelineStart(p, auto_deploy, days_since_training, create_raises) ==
    /\ sess[p].pc = "idle"
    /\ \E check \in check_retraining_needed(days_since_training) :
       IF ~check.should_retrain
       THEN /\ last' = Done("run_full_pipeline", "not_needed", Missing, auto_deploy)
            /\ UNCHANGED <<datasets, model_versions, training_jobs, sess>>
       ELSE /\ FreeIds(datasets) # {}
            /\ datasets' = [datasets EXCEPT ![NextId(datasets)] =
                  [st |-> "live", custom_types_included |-> ActiveCats,
                   images |-> SnapshotImages]]
            /\ IF create_raises
               THEN /\ last' = Done("run_full_pipeline", "error", Missing, auto_deploy)
                    /\ UNCHANGED <<model_versions, training_jobs, sess>>
               ELSE /\ FreeIds(model_versions) # {}
                    /\ FreeIds(training_jobs) # {}
                    /\ model_versions' = [model_versions EXCEPT
                          ![NextId(model_versions)] =
                             [st |-> "live", is_active |-> FALSE,
                              deployment_status |-> "training",
                              training_dataset_id |-> NextId(datasets)]]
                    /\ training_jobs' = [training_jobs EXCEPT
                          ![NextId(training_jobs)] =
                             [st |-> "live", status |-> "running",
                              model_version_id |-> NextId(model_versions)]]
                    /\ sess' = [sess EXCEPT ![p] =
                          [NoSession EXCEPT !.pc = "pipeline_training",
                                            !.op = "run_full_pipeline",
                                            !.target = NextId(model_versions),
                                            !.job = NextId(training_jobs),
                                            !.auto_deploy = auto_deploy]]
                    /\ UNCHANGED last
    /\ UNCHANGED <<learner, scoring, defect_types, training_samples, al_queue>>

\* transfer_learner.train has returned or raised: train_model writes the two
\* statuses (as in TrainFinish), and the pipeline aborts unless training
\* succeeded
PipelineTrain(p, outcome) ==
    /\ sess[p].pc = "pipeline_training"
    /\ training_jobs' = [training_jobs EXCEPT
          ![sess[p].job].status = JobStatusAfter(outcome)]
    /\ model_versions' = [model_versions EXCEPT
          ![sess[p].target].deployment_status = VersionStatusAfter(outcome)]
    /\ IF ~training_success(outcome)
       THEN /\ last' = Done("run_full_pipeline", "stage_failed_training",
                            sess[p].target, sess[p].auto_deploy)
            /\ sess' = [sess EXCEPT ![p] = NoSession]
       ELSE /\ sess' = [sess EXCEPT ![p].pc = "pipeline_validation"]
            /\ UNCHANGED last
    /\ UNCHANGED <<learner, scoring, defect_types, training_samples, al_queue, datasets>>

\* stage 5: validate_model returns to the pipeline whatever evaluate did
PipelineValidate(p, validation) ==
    /\ sess[p].pc = "pipeline_validation"
    /\ sess' = [sess EXCEPT ![p].pc = "pipeline_deployment",
                            ![p].validation = validation]
    /\ UNCHANGED <<learner, scoring, defect_types, training_samples, al_queue, datasets,
                   model_versions, training_jobs, last>>

\* stage 6 and the return: deploy_model(model_version) without force, or one
\* of the two skipped results
PipelineDeploy(p) ==
    /\ sess[p].pc = "pipeline_deployment"
    /\ LET v     == sess[p].target
           stage == DeploymentStage(sess[p].auto_deploy, sess[p].validation)
       IN IF stage # "deploy"
          THEN /\ last' = Done("run_full_pipeline", stage, v, sess[p].auto_deploy)
               /\ UNCHANGED <<model_versions, defect_types>>
          ELSE IF ~StatusAllowed("deploy_model",
                                 model_versions[v].deployment_status, FALSE)
          THEN /\ last' = Done("run_full_pipeline", "deploy_rejected", v,
                               sess[p].auto_deploy)
               /\ UNCHANGED <<model_versions, defect_types>>
          ELSE \E cur \in FirstActive(model_versions) :
               /\ model_versions' = Flush(model_versions, model_versions,
                      Activate(Deactivate(model_versions, cur,
                                          Archives("deploy_model")), v))
               /\ defect_types' = ClearRetraining(defect_types,
                                      model_versions[v].training_dataset_id)
               /\ last' = Done("run_full_pipeline", "deployed", v, sess[p].auto_deploy)
    /\ sess' = [sess EXCEPT ![p] = NoSession]
    /\ UNCHANGED <<learner, scoring, training_samples, al_queue, datasets, training_jobs>>

\* pipeline runs while defect types and samples are added and jobs cancelled
NextPipe ==
    \/ \E m \in MinSamplesChoices : create_custom_defect_type(m)
    \/ \E c \in CatIds : create_training_sample(c, Missing)
    \/ \E j \in JobIds : cancel_training_job(j)
    \/ \E p \in Requests, a \in BOOLEAN, d \in DaysChoices, r \in BOOLEAN :
          PipelineStart(p, a, d, r)
    \/ \E d \in DaysChoices : CheckRetraining(d)
    \/ \E c \in CatIds, a \in BOOLEAN, m \in MinSamplesChoices :
          update_custom_defect_type(c, a, m)
    \/ \E p \in Requests, o \in TrainOutcomes : PipelineTrain(p, o)
    \/ \E p \in Requests, k \in ValidationOutcomes : PipelineValidate(p, k)
    \/ \E p \in Requests : PipelineDeploy(p)

SpecPipe == Init /\ [][NextPipe]_vars

\* the same, with one pipeline run at a time and every change of defect
\* types and samples made between runs
NoRunInFlight == \A p \in Requests : sess[p].pc = "idle"

NextQuiet ==
    \/ NoRunInFlight /\ \E m \in MinSamplesChoices : create_custom_defect_type(m)
    \/ NoRunInFlight /\ \E c \in CatIds : create_training_sample(c, Missing)
    \/ NoRunInFlight /\ \E c \in CatIds, a \in BOOLEAN, m \in MinSamplesChoices :
                           update_custom_defect_type(c, a, m)
    \/ NoRunInFlight /\ \E p \in Requests, a \in BOOLEAN, d \in DaysChoices,
                           r \in BOOLEAN : PipelineStart(p, a, d, r)
    \/ \E p \in Requests, o \in TrainOutcomes : PipelineTrain(p, o)
    \/ \E p \in Requests, k \in ValidationOutcomes : PipelineValidate(p, k)
    \/ \E p \in Requests : PipelineDeploy(p)

SpecQuiet == Init /\ [][NextQuiet]_vars

\* ------------------------------------------------------ active learner
\* core/learning/active_learner.py, class ActiveLearner.  A float is a fixed
\* point number in thousandths; probabilities are in tenths.
One == 1000
\* the float nan (0.0 / 0.0 on numpy floats gives nan, with a warning)
NaN == 0 - 1000000
IsNaN(x) == x = NaN

\* constructor defaults
uncertainty_threshold == 300
diversity_weight      == 300
disagreement_weight   == 400
min_samples_per_class == 50

RECURSIVE SumSeq(_)
SumSeq(xs) == IF xs = <<>> THEN 0 ELSE Head(xs) + SumSeq(Tail(xs))

MinOf(a, b) == IF a < b THEN a ELSE b
MaxIn(S)    == CHOOSE x \in S : \A y \in S : y <= x

\* scipy.special.entr: -p * ln(p) for p = 0, 0.1, ..., 1, rounded down
entr == <<0, 230, 321, 361, 366, 346, 306, 249, 178, 94, 0>>
\* np.log(n) for n = 1, 2, 3, 4, rounded down
log == <<0, 693, 1098, 1386>>

\* calculate_uncertainty(probabilities, method="entropy"), the only method
\* the combiner uses.  The 1e-10 added before the logarithm is below the
\* resolution.  For a vector of one class max_entropy is log(1) = 0 and the
\* quotient is 0.0 / 0.0.
calculate_uncertainty(probabilities) ==
    LET ent == SumSeq([i \in 1..Len(probabilities) |-> entr[probabilities[i] + 1]])
        max_entropy == log[Len(probabilities)]
    IN IF max_entropy = 0 THEN NaN ELSE (ent * One) \div max_entropy

\* calculate_ensemble_disagreement: variance across the members, averaged
\* over the classes, divided by 0.25 and capped at 1.  With members x (in
\* tenths), n * sum(x^2) - sum(x)^2 is n^2 * 100 times the variance.
calculate_ensemble_disagreement(ensemble_predictions) ==
    IF Len(ensemble_predictions) < 2 THEN 0
    ELSE LET n == Len(ensemble_predictions)
             classes == 1..Len(ensemble_predictions[1])
             column(k) == [i \in 1..n |-> ensemble_predictions[i][k]]
             squares(k) == [i \in 1..n |-> column(k)[i] * column(k)[i]]
             variance(k) == n * SumSeq(squares(k)) - SumSeq(column(k)) * SumSeq(column(k))
             total == SumSeq([k \in classes |-> variance(k)])
             avg_variance == (total * One) \div (n * n * 100 * Len(ensemble_predictions[1]))
         IN MinOf(4 * avg_variance, One)

Dot(a, b) == SumSeq([i \in 1..Len(a) |-> a[i] * b[i]])
\* the embeddings drawn have whole norms
Norm(a) == CHOOSE n \in 0..Dot(a, a) : n * n = Dot(a, a)
cosine_similarity(a, b) == (Dot(a, b) * One) \div (Norm(a) * Norm(b))

\* calculate_diversity_score: 1 - the largest cosine similarity to the pool
calculate_diversity_score(image_features, labeled_features) ==
    IF Len(labeled_features) = 0 THEN One
    ELSE One - MaxIn({cosine_similarity(image_features, labeled_features[i]) :
                         i \in 1..Len(labeled_features)})

\* calculate_class_imbalance_priority
calculate_class_imbalance_priority(predicted_class, class_counts) ==
    IF predicted_class \notin DOMAIN class_counts THEN One
    ELSE IF class_counts[predicted_class] >= min_samples_per_class THEN 0
    ELSE One - (class_counts[predicted_class] * One) \div min_samples_per_class


\* a weight times a score
Weighted(weight, score) == (weight * score) \div One

\* calculate_priority_score: the priority of the returned pair.  A nan
\* uncertainty stays nan through the sum and the product, and
\* min(nan, 1.0) is nan.
calculate_priority_score(probabilities, image_features, ensemble_predictions, predicted_class, class_counts) ==
    LET uncertainty == calculate_uncertainty(probabilities)
        diversity ==
            IF image_features # None
            THEN calculate_diversity_score(Get(image_features), learner.labeled_features)
            ELSE 0
        disagreement ==
            IF ensemble_predictions # None
            THEN calculate_ensemble_disagreement(Get(ensemble_predictions))
            ELSE 0
        class_priority ==
            IF predicted_class # None /\ class_counts # None
            THEN calculate_class_imbalance_priority(Get(predicted_class), Get(class_counts))
            ELSE 0
        base == Weighted(300, uncertainty)
                + (IF image_features # None
                   THEN Weighted(diversity_weight, diversity) ELSE 0)
                + (IF ensemble_predictions # None
                   THEN Weighted(disagreement_weight, disagreement) ELSE 0)
        boosted == IF class_priority > 0
                   THEN (base * (One + class_priority)) \div One
                   ELSE base
    IN IF IsNaN(uncertainty) THEN NaN ELSE MinOf(boosted, One)

\* a comparison with nan is false
AtLeast(x, threshold) == ~IsNaN(x) /\ x >= threshold

Suggestion(suggest, priority, method) ==
    [should_suggest |-> suggest, priority |-> priority, method |-> method]

\* the same rules with the diversity rule tried before the disagreement rule
should_suggest_for_labeling_diversity_first(probabilities, image_features, ensemble_predictions) ==
    LET priority == calculate_priority_score(probabilities, image_features,
                                             ensemble_predictions, None, None)
    IN IF AtLeast(calculate_uncertainty(probabilities), uncertainty_threshold)
       THEN Suggestion(TRUE, priority, "uncertainty")
       ELSE IF image_features # None
               /\ calculate_diversity_score(Get(image_features),
                                            learner.labeled_features) >= 700
       THEN Suggestion(TRUE, priority, "diversity")
       ELSE IF ensemble_predictions # None
               /\ calculate_ensemble_disagreement(Get(ensemble_predictions)) >= 400
       THEN Suggestion(TRUE, priority, "disagreement")
       ELSE Suggestion(FALSE, 0, "none")

\* should_suggest_for_labeling: (should_suggest, priority_score, method)
should_suggest_for_labeling(probabilities, image_features, ensemble_predictions) ==
    LET priority == calculate_priority_score(probabilities, image_features,
                                             ensemble_predictions, None, None)
    IN IF AtLeast(calculate_uncertainty(probabilities), uncertainty_threshold)
       THEN Suggestion(TRUE, priority, "uncertainty")
       ELSE IF ensemble_predictions # None
               /\ calculate_ensemble_disagreement(Get(ensemble_predictions)) >= 400
       THEN Suggestion(TRUE, priority, "disagreement")
       ELSE IF image_features # None
               /\ calculate_diversity_score(Get(image_features),
                                            learner.labeled_features) >= 700
       THEN Suggestion(TRUE, priority, "diversity")
       ELSE Suggestion(FALSE, 0, "none")

\* the inputs of the scoring calls
ProbGrid == {0, 1, 5, 9, 10}
ProbVectors == {p \in UNION {[1..n -> ProbGrid] : n \in 1..MaxClasses} :
                   SumSeq(p) = 10}
Embeddings == {<<1, 0>>, <<0, 1>>, <<0 - 1, 0>>, <<3, 4>>}
CountChoices == {0, 25, 50}
EnsemblesOf(probabilities) ==
    UNION {[1..n -> {p \in ProbVectors : Len(p) = Len(probabilities)}] :
              n \in 0..MaxEnsemble}

\* a call scores one inference result
ScorePriority ==
    /\ last' = Done("calculate_priority_score",
                    calculate_priority_score(scoring.probabilities,
                        scoring.image_features, scoring.ensemble_predictions,
                        scoring.predicted_class, scoring.class_counts),
                    Missing, FALSE)
    /\ UNCHANGED <<defect_types, training_samples, al_queue, datasets,
                   model_versions, training_jobs, sess, learner, scoring>>

ScoreSuggest ==
    /\ last' = Done("should_suggest_for_labeling",
                    should_suggest_for_labeling(scoring.probabilities,
                        scoring.image_features, scoring.ensemble_predictions),
                    Missing, FALSE)
    /\ UNCHANGED <<defect_types, training_samples, al_queue, datasets,
                   model_versions, training_jobs, sess, learner, scoring>>

\* update_labeled_pool(image_features, true_class)
update_labeled_pool(image_features) ==
    /\ Len(learner.labeled_features) < MaxPool
    /\ learner' = [learner EXCEPT !.labeled_features = Append(@, image_features)]
    /\ last' = Done("update_labeled_pool", "ok", Missing, FALSE)
    /\ UNCHANGED <<defect_types, training_samples, al_queue, datasets,
                   model_versions, training_jobs, sess, scoring>>

InitScore ==
    /\ learner          = NoLearner
    /\ \E p \in ProbVectors :
          scoring \in [probabilities : {p},
                       image_features : {None} \cup {Some(e) : e \in Embeddings},
                       ensemble_predictions :
                           {None} \cup {Some(e) : e \in EnsemblesOf(p)},
                       predicted_class : {None} \cup {Some(k) : k \in 1..MaxClasses},
                       class_counts :
                           {None} \cup {Some([k \in {1} |-> n]) : n \in CountChoices}]
    /\ defect_types     = [c \in CatIds |-> NoCat]
    /\ training_samples = [s \in SampleIds |-> NoSample]
    /\ al_queue         = [q \in QueueIds |-> NoQueue]
    /\ datasets         = [d \in DatasetIds |-> NoDataset]
    /\ model_versions   = [v \in VersionIds |-> NoVersion]
    /\ training_jobs    = [j \in JobIds |-> NoJob]
    /\ sess             = [p \in Requests |-> NoSession]
    /\ last             = Done("none", "none", 0, FALSE)

NextScore ==
    \/ ScorePriority
    \/ ScoreSuggest
    \/ \E e \in Embeddings : update_labeled_pool(e)

SpecScore == InitScore /\ [][NextScore]_vars

\* --------------------------------------------------- suggestion listing
\* GET /active-learning/suggestions over a table of suggestions.  The listing
\* is a function of the table and of its two query parameters, so SpecList
\* starts from any table of up to MaxListed rows: scores in tenths, the status
\* the column defaults to ("pending") or a reviewed one, analysis_id NULL
\* (Missing) or an existing analysis, added_at in the order of insertion.
ListIds == 1..MaxListed
ListedRows ==
    [st : {"live"}, analysis_id : {Missing} \cup AnalysisIds,
     uncertainty_score : {2, 5}, priority_score : {5, 9},
     status : {"pending", "labeled"}, added_at : {0}]

InitList ==
    /\ \E n \in 1..MaxListed : \E rows \in [1..n -> ListedRows] :
          al_queue = [q \in ListIds |->
                         IF q <= n THEN [rows[q] EXCEPT !.added_at = q] ELSE NoQueue]
    /\ learner          = NoLearner
    /\ scoring          = NoScoring
    /\ defect_types     = [c \in CatIds |-> NoCat]
    /\ training_samples = [s \in SampleIds |-> NoSample]
    /\ datasets         = [d \in DatasetIds |-> NoDataset]
    /\ model_versions   = [v \in VersionIds |-> NoVersion]
    /\ training_jobs    = [j \in JobIds |-> NoJob]
    /\ sess             = [p \in Requests |-> NoSession]
    /\ last             = Done("none", "none", 0, FALSE)

\* the rows the query's filter keeps
Matching(min_uncertainty) ==
    {q \in LiveIds(al_queue) : /\ al_queue[q].status = "pending"
                               /\ al_queue[q].uncertainty_score >= min_uncertainty}

\* ORDER BY priority_score DESC: rows of equal priority come in any order
Orderings(ids) ==
    {o \in [1..Cardinality(ids) -> ids] :
        /\ \A i, j \in DOMAIN o : i # j => o[i] # o[j]
        /\ \A i, j \in DOMAIN o :
              i < j => al_queue[o[i]].priority_score >= al_queue[o[j]].priority_score}

\* LIMIT
Take(o, limit) == SubSeq(o, 1, IF limit < Len(o) THEN limit ELSE Len(o))

\* the loop over the fetched rows: a row whose analysis is not found is left out
HasAnalysis(q) == al_queue[q].analysis_id \in AnalysisIds

get_active_learning_suggestions(limit, min_uncertainty) ==
    /\ \E o \in Orderings(Matching(min_uncertainty)) :
          last' = Done("get_active_learning_suggestions",
                       SelectSeq(Take(o, limit), HasAnalysis), Missing, FALSE)
                  @@ [limit |-> limit, min_uncertainty |-> min_uncertainty]
    /\ UNCHANGED <<defect_types, training_samples, al_queue, datasets,
                   model_versions, training_jobs, sess, learner, scoring>>

\* limit: Query(20, le=100); min_uncertainty: Query(0.3, ge=0, le=1)
LimitChoices == {1, 2}
MinUncertaintyChoices == {3, 5}

NextList ==
    \/ \E limit \in LimitChoices, min_uncertainty \in MinUncertaintyChoices :
          get_active_learning_suggestions(limit, min_uncertainty)
    \/ \E q \in ListIds : skip_active_learning_suggestion(q)

SpecList == InitList /\ [][NextList]_vars

\* ------------------------------------------------------------ properties
\* the rows query(ModelVersion).filter(is_active == True) returns
ActiveVersions == {v \in LiveIds(model_versions) : model_versions[v].is_active}

\* the two deploy entry points: the pipeline stage and POST /models/deploy
DeployOps == {"deploy_model", "deploy_model_version"}

\* C1: after any sequence of deploys (pipeline, forced or not, and route) and
\* rollbacks run one at a time, at most one ModelVersion is active.
AtMostOneActive == Cardinality(ActiveVersions) <= 1

\* a rollback has swapped two versions: one is active, the other archived
C1_Witness ==
    /\ last.op = "rollback_model_version" /\ last.res = "ok"
    /\ model_versions[last.id].is_active
    /\ \E w \in LiveIds(model_versions) :
          w # last.id /\ model_versions[w].deployment_status = "archived"

\* C2: when two deploys or rollbacks of different versions interleave, each
\* reading the active version and committing its swap in separate steps, at
\* most one ModelVersion is active once both have returned.
ConcurrentSwapsLeaveOneActive ==
    (\A p \in Requests : sess[p].pc = "idle") => Cardinality(ActiveVersions) <= 1

\* C3: once a first deploy has succeeded, every committed state has exactly
\* one active ModelVersion (a reader never sees none, nor two).
ExactlyOneActiveOnceDeployed ==
    (\E v \in LiveIds(model_versions) :
        model_versions[v].deployment_status \in {"deployed", "archived"})
    => Cardinality(ActiveVersions) = 1

\* C4: a deploy without force of a version whose deployment_status is not
\* "trained" fails with an invalid-state error and changes no version's
\* is_active or deployment_status and no defect type's requires_retraining.
RejectedDeployChangesNothing ==
    [][\A v \in VersionIds :
         ( /\ last'.op \in DeployOps /\ last'.id = v /\ ~last'.force
           /\ Live(model_versions, v)
           /\ model_versions[v].deployment_status # "trained" )
         => /\ last'.res = "invalid_state"
            /\ model_versions' = model_versions
            /\ \A c \in CatIds : defect_types'[c].requires_retraining
                                    = defect_types[c].requires_retraining]_vars

\* a deploy was refused while another version was active and a defect type
\* was waiting for retraining
C4_Witness ==
    /\ last.op \in DeployOps /\ last.res = "invalid_state"
    /\ ActiveVersions # {}
    /\ \E c \in LiveIds(defect_types) : defect_types[c].requires_retraining

\* C5: a rollback to a version whose deployment_status is "training" or
\* "failed" fails with an invalid-state error and changes no version.
RejectedRollbackChangesNothing ==
    [][\A v \in VersionIds :
         ( /\ last'.op = "rollback_model_version" /\ last'.id = v
           /\ Live(model_versions, v)
           /\ model_versions[v].deployment_status \in {"training", "failed"} )
         => /\ last'.res = "invalid_state"
            /\ model_versions' = model_versions]_vars

\* a rollback to a failed version was refused while another version was active
C5_Witness ==
    /\ last.op = "rollback_model_version" /\ last.res = "invalid_state"
    /\ Live(model_versions, last.id)
    /\ model_versions[last.id].deployment_status = "failed"
    /\ ActiveVersions # {}

\* C6: after every successful deploy the target is active and "deployed", and
\* the version that was active before it (when another one) is inactive and
\* "archived".
DeploySwapsStatuses ==
    [][\A v \in VersionIds :
         (last'.op \in DeployOps /\ last'.id = v /\ last'.res = "ok")
         => /\ model_versions'[v].is_active
            /\ model_versions'[v].deployment_status = "deployed"
            /\ \A w \in ActiveVersions \ {v} :
                  /\ ~model_versions'[w].is_active
                  /\ model_versions'[w].deployment_status = "archived"]_vars

\* C7: a successful deploy of a version leaves requires_retraining false on
\* every defect type included in the version's dataset snapshot.
DeployClearsRetraining ==
    [][\A v \in VersionIds :
         ( /\ last'.op \in DeployOps /\ last'.id = v /\ last'.res = "ok"
           /\ Live(datasets, model_versions[v].training_dataset_id) )
         => \A c \in datasets[model_versions[v].training_dataset_id]
                        .custom_types_included :
               Live(defect_types', c) => ~defect_types'[c].requires_retraining]_vars

\* C8: requires_retraining of a defect type goes from true to false only in a
\* successful deploy of a version whose dataset snapshot includes the type.
RetrainingClearedOnlyByDeploy ==
    [][\A c \in CatIds :
         ( /\ Live(defect_types, c) /\ defect_types[c].requires_retraining
           /\ Live(defect_types', c) /\ ~defect_types'[c].requires_retraining )
         => /\ last'.op \in DeployOps /\ last'.res = "ok"
            /\ Live(model_versions, last'.id)
            /\ Live(datasets, model_versions[last'.id].training_dataset_id)
            /\ c \in datasets[model_versions[last'.id].training_dataset_id]
                        .custom_types_included]_vars

\* a deploy has cleared the flag of a defect type of its snapshot that
\* already had samples
C8_Witness ==
    /\ last.op = "deploy_model" /\ last.res = "ok"
    /\ Live(datasets, model_versions[last.id].training_dataset_id)
    /\ \E c \in datasets[model_versions[last.id].training_dataset_id]
                   .custom_types_included :
          /\ Live(defect_types, c)
          /\ ~defect_types[c].requires_retraining
          /\ defect_types[c].current_sample_count > 0

TerminalJobStatusFinal ==
    [][\A j \in JobIds :
         training_jobs[j].status \in {"completed", "failed", "cancelled"}
         => training_jobs'[j].status = training_jobs[j].status]_vars

FailedStaysFailed ==
    [][\A v \in VersionIds :
         model_versions[v].deployment_status = "failed"
         => model_versions'[v].deployment_status = "failed"]_vars

\* C13: when training fails (reported or raised) run_full_pipeline returns
\* stage_failed = "training" to its caller, and the run executes neither
\* validate_model nor deploy_model.
TrainingFailureAbortsRun ==
    [][\A p \in Requests :
         ( /\ sess[p].pc = "pipeline_training"
           /\ training_jobs'[sess[p].job].status = "failed" )
         => /\ last' = Done("run_full_pipeline", "stage_failed_training",
                            sess[p].target, sess[p].auto_deploy)
            /\ sess'[p] = NoSession
            /\ ~model_versions'[sess[p].target].is_active
            /\ ActiveVersions' = ActiveVersions
            /\ defect_types' = defect_types]_vars

\* a run has returned stage_failed = "training"; its version is failed and
\* inactive and its job failed
C13_Witness ==
    /\ last.op = "run_full_pipeline" /\ last.res = "stage_failed_training"
    /\ model_versions[last.id].deployment_status = "failed"
    /\ ~model_versions[last.id].is_active
    /\ \E j \in LiveIds(training_jobs) :
          /\ training_jobs[j].model_version_id = last.id
          /\ training_jobs[j].status = "failed"

\* C14: in a run with auto_deploy = true whose validation accuracy is below
\* the threshold, deploy is not executed, the deployment stage result is
\* skipped with reason "Failed validation", and no step of the run changes
\* which version is active.
FailedValidationSkipsDeploy ==
    [][\A p \in Requests :
         /\ ( /\ sess[p].pc = "pipeline_deployment"
              /\ sess[p].auto_deploy /\ sess[p].validation = "below"
              /\ sess'[p] # sess[p] )
            => /\ last' = Done("run_full_pipeline", "skipped_failed_validation",
                               sess[p].target, TRUE)
               /\ model_versions' = model_versions
               /\ defect_types' = defect_types
         /\ ( /\ sess'[p] # sess[p]
              /\ sess[p].pc # "pipeline_deployment" )
            => ActiveVersions' = ActiveVersions]_vars

\* a run with auto_deploy has returned with its deployment skipped for failed
\* validation while the version deployed by an earlier run is still active
C14_Witness ==
    /\ last.op = "run_full_pipeline" /\ last.res = "skipped_failed_validation"
    /\ last.force
    /\ ~model_versions[last.id].is_active
    /\ model_versions[last.id].deployment_status = "trained"
    /\ \E w \in ActiveVersions : w # last.id

PipelineFailuresNameStage ==
    /\ ~(last.op = "run_full_pipeline" /\ last.res = "error")
    /\ \A p \in Requests :
          sess[p].pc = "pipeline_deployment" => sess[p].validation # "raises"

\* C17: no dataset snapshot is persisted when the included defect types have
\* no training sample at all (prepare_training_dataset fails instead, and the
\* run creates no ModelVersion and no TrainingJob).
NoEmptySnapshot ==
    [][\A d \in DatasetIds :
         (datasets[d].st = "free" /\ datasets'[d].st = "live")
         => \E s \in LiveIds(training_samples) :
               training_samples[s].defect_type_id
                  \in datasets'[d].custom_types_included]_vars

PriorityInUnitInterval ==
    last.op = "calculate_priority_score"
        => ~IsNaN(last.res) /\ 0 <= last.res /\ last.res <= One

\* C26: should_suggest_for_labeling takes the first matching rule in the order
\* uncertainty (u >= threshold), disagreement (ensemble supplied and
\* g >= 0.4), diversity (embedding supplied and d >= 0.7), else it does not
\* suggest; a suggestion carries the combined priority of all supplied signals.
SuggestFollowsRuleOrder ==
    last.op = "should_suggest_for_labeling" =>
        LET u == calculate_uncertainty(scoring.probabilities)
            byUncertainty == ~IsNaN(u) /\ u >= uncertainty_threshold
            byDisagreement ==
                /\ scoring.ensemble_predictions # None
                /\ calculate_ensemble_disagreement(
                       Get(scoring.ensemble_predictions)) >= 400
            byDiversity ==
                /\ scoring.image_features # None
                /\ calculate_diversity_score(Get(scoring.image_features),
                                             learner.labeled_features) >= 700
            r == last.res
        IN /\ r.method = "uncertainty" <=> byUncertainty
           /\ r.method = "disagreement" <=> ~byUncertainty /\ byDisagreement
           /\ r.method = "diversity"
                 <=> ~byUncertainty /\ ~byDisagreement /\ byDiversity
           /\ r.method = "none" <=> ~byUncertainty /\ ~byDisagreement /\ ~byDiversity
           /\ r.should_suggest <=> r.method # "none"
           /\ r.priority =
                 IF r.should_suggest
                 THEN calculate_priority_score(scoring.probabilities,
                          scoring.image_features, scoring.ensemble_predictions,
                          None, None)
                 ELSE 0

\* the disagreement rule and the diversity rule both match, and the call
\* answered "disagreement"
C26_Witness ==
    /\ last.op = "should_suggest_for_labeling"
    /\ last.res.method = "disagreement"
    /\ scoring.image_features # None
    /\ calculate_diversity_score(Get(scoring.image_features),
                                 learner.labeled_features) >= 700

NoLostSampleCount ==
    [][\A c \in CatIds :
          LET added == {s \in DOMAIN training_samples :
                           /\ training_samples[s].st = "free"
                           /\ training_samples'[s].st = "live"
                           /\ training_samples'[s].defect_type_id = c}
          IN (Live(defect_types, c) /\ added # {}) =>
                defect_types'[c].current_sample_count
                   = defect_types[c].current_sample_count + Cardinality(added)]_vars

ActiveIffDeployed ==
    \A v \in LiveIds(model_versions) :
        model_versions[v].is_active <=> model_versions[v].deployment_status = "deployed"

\* C24: check_retraining_needed returns should_retrain = true if and only if
\* one of the four conditions holds (an active flagged defect type; an active
\* flagged defect type with enough samples; an active model of 30 days or
\* more; more than 10% more samples than the active model's snapshot holds),
\* and its reasons are empty exactly when should_retrain is false.
RetrainIffSomeCondition ==
    [][\A days \in DaysChoices :
          CheckRetraining(days) =>
             LET flagged == \E c \in ActiveCats : defect_types[c].requires_retraining
                 ready   == \E c \in ActiveCats :
                               /\ defect_types[c].requires_retraining
                               /\ defect_types[c].current_sample_count
                                     >= defect_types[c].min_samples_required
                 aged    == ActiveVersions # {} /\ days >= 30
                 grown   == \E v \in ActiveVersions :
                               LET d == model_versions[v].training_dataset_id
                               IN /\ Live(datasets, d)
                                  /\ 10 * Cardinality(LiveIds(training_samples))
                                        > 11 * Cardinality(datasets[d].images)
             IN /\ last'.res.should_retrain <=> (flagged \/ ready \/ aged \/ grown)
                /\ last'.res.reasons = <<>> <=> ~last'.res.should_retrain]_vars

\* a check whose only reason is the growth of the sample table
C24_Witness ==
    /\ last.op = "check_retraining_needed"
    /\ last.res.should_retrain
    /\ last.res.reasons = <<"more_samples">>

====
